---- MODULE Spec2Model ----
(***************************************************************************)
(* State-machine model of the SimpleRAG answer pipeline and its            *)
(* conversation session store (src/app.py).                                *)
(*                                                                         *)
(* The session store is the module-level dict chat_history_store.  Every   *)
(* HTTP handler is split at the points where it waits for an external      *)
(* service (retriever, generation service) or where the streaming          *)
(* generator is suspended at a yield, so that the store can be observed    *)
(* exactly where the program lets it be observed.                          *)
(*                                                                         *)
(* Texts are strings; string concatenation is \o.                          *)
(*                                                                         *)
(* The pipeline handles (qa_chain, retriever, llm, prompt) are set: the    *)
(* process calls initialize_rag_system() before it serves (app.py:367-369),*)
(* so the "if not qa_chain" branches of the handlers are not taken here.   *)
(* The retriever and the generation service are environment: each call     *)
(* either returns or raises.                                               *)
(***************************************************************************)
EXTENDS Integers, Sequences, FiniteSets, TLC

VARIABLES
    chat_history_store,  \* app.py:42   session id -> list of {role, content}
    req,                 \* per worker: the request it is serving / has served
    asked,               \* environment: questions sent so far, per session
    failures,            \* environment: service failures injected so far
    clears,              \* environment: clear_history calls so far
    appended,            \* history variable: every message ever appended, per session
    memory,              \* qa_chain.py:18  the buffered chain's ConversationBufferMemory
    llm_input,           \* history variable: per worker, the conversation history
                         \* handed to the generation service in its request
    knowledge_dir,       \* app.py:22   files of ./knowledge_base
    tracking_file,       \* app.py:24   ./vector_store/file_tracking.json on disk
    chroma,              \* app.py:23   vectors persisted in ./vector_store
    qa_chain,            \* app.py:37   the pipeline handle is set
    proc,                \* per process: its run of initialize_rag_system
    clock,               \* datetime.now(), in ticks
    fs_version,          \* environment: number of changes made to knowledge_dir
    scan_log,            \* history variable: the last two completed scans
    failed_extract,      \* history variable: path -> content whose extraction
                         \* failed and was not ingested since
    load_call            \* a call of load_specific_documents on its own:
                         \* its arguments and its result

\* the session store and its requests
session_vars == <<chat_history_store, req, asked, failures, clears, appended>>

\* the buffered chain
chain_vars == <<memory, llm_input>>

\* ingestion: watched directory, manifest, index, pipeline handle
ingest_vars == <<knowledge_dir, tracking_file, chroma, qa_chain, proc, clock,
                 fs_version, scan_log, failed_extract>>

vars == <<session_vars, chain_vars, ingest_vars, load_call>>

----------------------------------------------------------------------------
(* Bounds of the model *)

\* total number of questions the clients send
MaxRequests == 11
\* number of disturbances of the plain question/answer traffic: requests in
\* which a service (retriever / generation) fails, plus clear_history calls
MaxDisturbances == 1

(* Program constants *)

\* app.py:185 and app.py:288: "if len(...) > 20: ... [-20:]"
MaxHistory == 20

Sessions == {"s1", "s2"}

\* workers serving requests one at a time
SeqThreads == {"w1"}

----------------------------------------------------------------------------
(* Environment: what the clients send and what the external services return *)

\* the n-th question of a client on a session (non-empty, distinct texts)
Question(n) == "q" \o ToString(n)

\* the empty question, rejected by both handlers
EmptyQuestion == ""

\* Stubbed generation service: the ordered fragments it yields for the n-th
\* question when it does not fail (three, one or zero fragments).
LLMStream(n) ==
    CASE n % 3 = 1 -> <<"Paris", " is", " the capital.">>
      [] n % 3 = 2 -> <<"ok">>
      [] OTHER     -> <<>>

\* Stubbed retriever: the source_file metadata of the documents it returns.
RetrievedDocs == <<"notes.txt">>

----------------------------------------------------------------------------
(* Pure helpers *)

RECURSIVE Concat(_)
\* "answer += chunk" over a whole fragment list
Concat(fs) == IF fs = <<>> THEN "" ELSE Head(fs) \o Concat(Tail(fs))

\* h[-n:]
LastN(h, n) == IF Len(h) <= n THEN h ELSE SubSeq(h, Len(h) - n + 1, Len(h))

\* list.pop(): drop the last element
Pop(h) == SubSeq(h, 1, Len(h) - 1)

UserMsg(q) == [role |-> "user", content |-> q]
AssistantMsg(a) == [role |-> "assistant", content |-> a]

\* chat_history_store.get(session_id, [])
HistoryOf(store, s) == IF s \in DOMAIN store THEN store[s] ELSE <<>>

\* store with store[s] = h (creating the key when absent)
StoreSet(store, s, h) ==
    [k \in (DOMAIN store) \cup {s} |-> IF k = s THEN h ELSE store[k]]

\* Fault variant of Trim: keeps the oldest messages, h[:20]
Trim_keep_oldest(h) ==
    IF Len(h) > MaxHistory THEN SubSeq(h, 1, MaxHistory) ELSE h

\* "if len(h) > 20: h = h[-20:]"
Trim(h) == IF Len(h) > MaxHistory THEN LastN(h, MaxHistory) ELSE h

\* sources list built from the retrieved documents
FormatSources(docs) == [i \in 1..Len(docs) |-> [file |-> docs[i]]]

----------------------------------------------------------------------------
(* Request records *)

\* Fields of a request record:
\*   pc        where the handler is: "idle", "q_invoke" (query waits for
\*             qa_chain.invoke), "s_retrieve" (stream_query waits for the
\*             retriever), "s_response" (Response returned, generator not yet
\*             pulled), "s_streaming" (generator suspended at a yield), "done"
\*   kind      "query", "stream", "get_history", "clear_history"
\*   sid, question   the request's inputs
\*   pre       history variable: the session's history when the handler began
\*   script    environment: fragments the generation service yields if it
\*             does not fail
\*   docs      retrieved documents (local docs / source_docs)
\*   gen_asked_at  history variable: number of events already delivered
\*             when the generation service was first invoked, -1 before that
\*   generated history variable: fragments the service has yielded so far
\*   answer    local variable answer
\*   events    SSE events delivered to the consumer, in order
\*   status    "success", "error" (a jsonify error result), "aborted" (the
\*             generator raised)
\*   error     "", "empty_question" or "exception"
\*   sources, history   payload of the JSON result
IdleReq ==
    [pc |-> "idle", kind |-> "none", sid |-> "none", question |-> "",
     pre |-> <<>>, script |-> <<>>, docs |-> <<>>, gen_asked_at |-> -1,
     generated |-> <<>>, answer |-> "", events |-> <<>>,
     status |-> "none", error |-> "", sources |-> <<>>, history |-> <<>>]

\* the generation service is invoked now, unless it was invoked before
FirstAsk(r) == IF r.gen_asked_at = -1 THEN Len(r.events) ELSE r.gen_asked_at

\* a worker can take a new request
Free(t) == req[t].pc \in {"idle", "done"}

TotalAsked == asked["s1"] + asked["s2"]

\* the environment may still inject a failure or a clear_history call
MayDisturb == failures + clears < MaxDisturbances

SessionInit ==
    /\ chat_history_store = [k \in {} |-> <<>>]
    /\ req = [t \in SeqThreads |-> IdleReq]
    /\ asked = [s \in Sessions |-> 0]
    /\ failures = 0
    /\ clears = 0
    /\ appended = [s \in Sessions |-> <<>>]

----------------------------------------------------------------------------
(* query(): buffered mode, app.py:145-211 *)

\* app.py:162-166: "if not question" -> error result, nothing else happens
query_reject(t) ==
    /\ Free(t)
    /\ req' = [req EXCEPT ![t] =
                 [IdleReq EXCEPT !.pc = "done", !.kind = "query",
                                 !.question = EmptyQuestion,
                                 !.status = "error", !.error = "empty_question"]]
    /\ UNCHANGED <<chat_history_store, asked, failures, clears, appended>>

\* app.py:168-174: lazy creation of the session, append of the user message
query_begin(t, s) ==
    /\ Free(t)
    /\ TotalAsked < MaxRequests
    /\ LET n == asked[s] + 1
           q == Question(n)
           h == HistoryOf(chat_history_store, s)
       IN /\ chat_history_store' =
                 StoreSet(chat_history_store, s, Append(h, UserMsg(q)))
          /\ req' = [req EXCEPT ![t] =
                       [IdleReq EXCEPT !.pc = "q_invoke", !.kind = "query",
                                       !.sid = s, !.question = q, !.pre = h,
                                       !.script = LLMStream(n)]]
          /\ asked' = [asked EXCEPT ![s] = n]
          /\ appended' = [appended EXCEPT ![s] = Append(@, UserMsg(q))]
    /\ UNCHANGED <<failures, clears>>

\* app.py:177-201: qa_chain.invoke returned; append the answer, trim, reply
query_success(t) ==
    /\ req[t].pc = "q_invoke"
    /\ LET s == req[t].sid
           answer == Concat(req[t].script)
       IN /\ chat_history_store' =
                 [chat_history_store EXCEPT
                    ![s] = Trim(Append(@, AssistantMsg(answer)))]
          /\ req' = [req EXCEPT ![t].pc = "done", ![t].gen_asked_at = 0,
                                ![t].docs = RetrievedDocs,
                                ![t].generated = req[t].script,
                                ![t].answer = answer,
                                ![t].status = "success",
                                ![t].sources = FormatSources(RetrievedDocs)]
          /\ appended' = [appended EXCEPT ![s] = Append(@, AssistantMsg(answer))]
    /\ UNCHANGED <<asked, failures, clears>>

\* Fault variant of query_except: the error result is returned without
\* the pop of app.py:205-206
query_except_no_pop(t) ==
    /\ req[t].pc = "q_invoke"
    /\ MayDisturb
    /\ req' = [req EXCEPT ![t].pc = "done", ![t].status = "error",
                          ![t].error = "exception"]
    /\ failures' = failures + 1
    /\ UNCHANGED <<chat_history_store, asked, clears, appended>>

\* app.py:203-211: qa_chain.invoke raised (retrieval or generation failure);
\* pop the last message of the session, reply with an error result
query_except(t) ==
    /\ req[t].pc = "q_invoke"
    /\ MayDisturb
    /\ LET s == req[t].sid
       IN chat_history_store' =
             IF s \in DOMAIN chat_history_store /\ chat_history_store[s] # <<>>
             THEN [chat_history_store EXCEPT ![s] = Pop(@)]
             ELSE chat_history_store
    /\ req' = [req EXCEPT ![t].pc = "done", ![t].status = "error",
                          ![t].error = "exception"]
    /\ failures' = failures + 1
    /\ UNCHANGED <<asked, clears, appended>>

----------------------------------------------------------------------------
(* stream_query(): streaming mode, app.py:213-306 *)

\* app.py:230-234: "if not question" -> error result, nothing else happens
stream_query_reject(t) ==
    /\ Free(t)
    /\ req' = [req EXCEPT ![t] =
                 [IdleReq EXCEPT !.pc = "done", !.kind = "stream",
                                 !.question = EmptyQuestion,
                                 !.status = "error", !.error = "empty_question"]]
    /\ UNCHANGED <<chat_history_store, asked, failures, clears, appended>>

\* app.py:236-241: lazy creation of the session, append of the user message
\* (before the try block)
stream_query_begin(t, s) ==
    /\ Free(t)
    /\ TotalAsked < MaxRequests
    /\ LET n == asked[s] + 1
           q == Question(n)
           h == HistoryOf(chat_history_store, s)
       IN /\ chat_history_store' =
                 StoreSet(chat_history_store, s, Append(h, UserMsg(q)))
          /\ req' = [req EXCEPT ![t] =
                       [IdleReq EXCEPT !.pc = "s_retrieve", !.kind = "stream",
                                       !.sid = s, !.question = q, !.pre = h,
                                       !.script = LLMStream(n)]]
          /\ asked' = [asked EXCEPT ![s] = n]
          /\ appended' = [appended EXCEPT ![s] = Append(@, UserMsg(q))]
    /\ UNCHANGED <<failures, clears>>

\* app.py:245-254 and 294-297: the retriever returned; the handler builds the
\* generator object and returns the Response.  The body of generate() has
\* not run yet.
stream_query_respond(t) ==
    /\ req[t].pc = "s_retrieve"
    /\ req' = [req EXCEPT ![t].pc = "s_response", ![t].docs = RetrievedDocs]
    /\ UNCHANGED <<chat_history_store, asked, failures, clears, appended>>

\* Fault variant of stream_query_except: the error result is returned
\* without the pop of app.py:301-302
stream_query_except_no_pop(t) ==
    /\ req[t].pc = "s_retrieve"
    /\ MayDisturb
    /\ req' = [req EXCEPT ![t].pc = "done", ![t].status = "error",
                          ![t].error = "exception"]
    /\ failures' = failures + 1
    /\ UNCHANGED <<chat_history_store, asked, clears, appended>>

\* app.py:299-306: retriever.invoke raised inside the try block; pop the last
\* message of the session, reply with an error result
stream_query_except(t) ==
    /\ req[t].pc = "s_retrieve"
    /\ MayDisturb
    /\ LET s == req[t].sid
       IN chat_history_store' =
             IF chat_history_store[s] # <<>>
             THEN [chat_history_store EXCEPT ![s] = Pop(@)]
             ELSE chat_history_store
    /\ req' = [req EXCEPT ![t].pc = "done", ![t].status = "error",
                          ![t].error = "exception"]
    /\ failures' = failures + 1
    /\ UNCHANGED <<asked, clears, appended>>

\* Fault variant of generate_sources: the chain is built and started
\* before the sources event is yielded
generate_sources_after_chain(t) ==
    /\ req[t].pc = "s_response"
    /\ req' = [req EXCEPT
                 ![t].pc = "s_streaming",
                 ![t].gen_asked_at = FirstAsk(req[t]),
                 ![t].sources = FormatSources(req[t].docs),
                 ![t].events = Append(@, [type |-> "sources",
                                           sources |-> FormatSources(req[t].docs)])]
    /\ UNCHANGED <<chat_history_store, asked, failures, clears, appended>>

\* app.py:258-268: first pull of the generator: build and yield the sources
\* event.  The chain is only built after this yield.
generate_sources(t) ==
    /\ req[t].pc = "s_response"
    /\ req' = [req EXCEPT
                 ![t].pc = "s_streaming",
                 ![t].sources = FormatSources(req[t].docs),
                 ![t].events = Append(@, [type |-> "sources",
                                           sources |-> FormatSources(req[t].docs)])]
    /\ UNCHANGED <<chat_history_store, asked, failures, clears, appended>>

\* Fault variant of generate_token: "answer = chunk + answer"
generate_token_prepend(t) ==
    /\ req[t].pc = "s_streaming"
    /\ Len(req[t].generated) < Len(req[t].script)
    /\ LET chunk == req[t].script[Len(req[t].generated) + 1]
       IN req' = [req EXCEPT
                    ![t].gen_asked_at = FirstAsk(req[t]),
                    ![t].generated = Append(@, chunk),
                    ![t].answer = chunk \o @,
                    ![t].events = Append(@, [type |-> "token", token |-> chunk])]
    /\ UNCHANGED <<chat_history_store, asked, failures, clears, appended>>

\* app.py:280-282: chain.stream yields the next chunk; it is added to answer
\* and yielded as a token event
generate_token(t) ==
    /\ req[t].pc = "s_streaming"
    /\ Len(req[t].generated) < Len(req[t].script)
    /\ LET chunk == req[t].script[Len(req[t].generated) + 1]
       IN req' = [req EXCEPT
                    ![t].gen_asked_at = FirstAsk(req[t]),
                    ![t].generated = Append(@, chunk),
                    ![t].answer = @ \o chunk,
                    ![t].events = Append(@, [type |-> "token", token |-> chunk])]
    /\ UNCHANGED <<chat_history_store, asked, failures, clears, appended>>

\* app.py:284-292: chain.stream is exhausted; append the answer, trim, yield
\* the end event
generate_end(t) ==
    /\ req[t].pc = "s_streaming"
    /\ Len(req[t].generated) = Len(req[t].script)
    /\ LET s == req[t].sid
       IN /\ chat_history_store' =
                 [chat_history_store EXCEPT
                    ![s] = Trim(Append(@, AssistantMsg(req[t].answer)))]
          /\ appended' = [appended EXCEPT
                            ![s] = Append(@, AssistantMsg(req[t].answer))]
    /\ req' = [req EXCEPT ![t].pc = "done", ![t].gen_asked_at = FirstAsk(req[t]),
                          ![t].status = "success",
                          ![t].events = Append(@, [type |-> "end"])]
    /\ UNCHANGED <<asked, failures, clears>>

\* Fault variant of generate_raise: the partial answer is committed to the
\* session when the stream breaks (append in a finally clause)
generate_raise_commit(t) ==
    /\ req[t].pc = "s_streaming"
    /\ MayDisturb
    /\ LET s == req[t].sid
       IN /\ chat_history_store' =
                 [chat_history_store EXCEPT
                    ![s] = Trim(Append(@, AssistantMsg(req[t].answer)))]
          /\ appended' = [appended EXCEPT
                            ![s] = Append(@, AssistantMsg(req[t].answer))]
    /\ req' = [req EXCEPT ![t].pc = "done", ![t].gen_asked_at = FirstAsk(req[t]),
                          ![t].status = "aborted", ![t].error = "exception"]
    /\ failures' = failures + 1
    /\ UNCHANGED <<asked, clears>>

\* app.py:280: chain.stream raises (on the first pull or after some chunks).
\* The exception leaves generate(); the handler's try/except (app.py:243,
\* 299) has already been left, so nothing is popped.
generate_raise(t) ==
    /\ req[t].pc = "s_streaming"
    /\ MayDisturb
    /\ req' = [req EXCEPT ![t].pc = "done", ![t].gen_asked_at = FirstAsk(req[t]),
                          ![t].status = "aborted", ![t].error = "exception"]
    /\ failures' = failures + 1
    /\ UNCHANGED <<chat_history_store, asked, clears, appended>>

----------------------------------------------------------------------------
(* get_history() and clear_history(), app.py:308-324 *)

\* Fault variant of get_history: the lookup creates the session,
\* chat_history_store.setdefault(session_id, [])
get_history_setdefault(t, s) ==
    /\ Free(t)
    /\ chat_history_store' =
          StoreSet(chat_history_store, s, HistoryOf(chat_history_store, s))
    /\ req' = [req EXCEPT ![t] =
                 [IdleReq EXCEPT !.pc = "done", !.kind = "get_history",
                                 !.sid = s, !.status = "success",
                                 !.pre = HistoryOf(chat_history_store, s),
                                 !.history = HistoryOf(chat_history_store, s)]]
    /\ UNCHANGED <<asked, failures, clears, appended>>

\* app.py:309-315
get_history(t, s) ==
    /\ Free(t)
    /\ req' = [req EXCEPT ![t] =
                 [IdleReq EXCEPT !.pc = "done", !.kind = "get_history",
                                 !.sid = s, !.status = "success",
                                 !.pre = HistoryOf(chat_history_store, s),
                                 !.history = HistoryOf(chat_history_store, s)]]
    /\ UNCHANGED <<chat_history_store, asked, failures, clears, appended>>

\* Fault variant of clear_history: the histories of all sessions are
\* emptied
clear_history_all(t, s) ==
    /\ Free(t)
    /\ MayDisturb
    /\ chat_history_store' =
          [k \in (DOMAIN chat_history_store) \cup {s} |-> <<>>]
    /\ req' = [req EXCEPT ![t] =
                 [IdleReq EXCEPT !.pc = "done", !.kind = "clear_history",
                                 !.sid = s, !.status = "success",
                                 !.pre = HistoryOf(chat_history_store, s)]]
    /\ clears' = clears + 1
    /\ UNCHANGED <<asked, failures, appended>>

\* app.py:318-324
clear_history(t, s) ==
    /\ Free(t)
    /\ MayDisturb
    /\ chat_history_store' = StoreSet(chat_history_store, s, <<>>)
    /\ req' = [req EXCEPT ![t] =
                 [IdleReq EXCEPT !.pc = "done", !.kind = "clear_history",
                                 !.sid = s, !.status = "success",
                                 !.pre = HistoryOf(chat_history_store, s)]]
    /\ clears' = clears + 1
    /\ UNCHANGED <<asked, failures, appended>>

----------------------------------------------------------------------------
(* The watched directory and the tracking manifest, file_tracking.py *)

\* bounds of the ingestion model
\* number of changes made to the watched directory (uploads, edits, deletions)
MaxEdits == 1
\* number of runs of initialize_rag_system
MaxScans == 2

\* file names that can appear in ./knowledge_base
Paths == {"notes.txt", "guide.md", "tool.exe"}

\* order in which the directory lists its entries
DirOrder == <<"guide.md", "notes.txt", "tool.exe">>

\* os.path.splitext(path)[1]
Ext(p) ==
    CASE p = "notes.txt" -> ".txt"
      [] p = "docs/faq.txt" -> ".txt"
      [] p = "guide.md"  -> ".md"
      [] OTHER           -> ".exe"

\* file contents (of equal size, so that an edit can preserve the size)
Contents == {"v1", "v2"}

\* file_tracking.py:52
supported_extensions ==
    <<".pdf", ".txt", ".csv", ".xlsx", ".xls", ".md", ".markdown">>

\* A file of the directory: content, modification time, and gen, a history
\* field numbering the write that produced this content.
NoFile == [exists |-> FALSE, content |-> "", mtime |-> 0, gen |-> 0]
File(c, m, g) == [exists |-> TRUE, content |-> c, mtime |-> m, gen |-> g]

Range(q) == {q[i] : i \in 1..Len(q)}

EmptyMap == [k \in {} |-> 0]

\* d[k] = v, creating the key when absent
Put(d, k, v) == [x \in (DOMAIN d) \cup {k} |-> IF x = k THEN v ELSE d[x]]

\* glob.glob(knowledge_dir/**/*ext)
Glob(dir, ext) ==
    SelectSeq(DirOrder, LAMBDA p : dir[p].exists /\ Ext(p) = ext)

RECURSIVE GlobAll(_, _)
\* file_tracking.py:59-61: current_files, one glob per supported extension
GlobAll(dir, exts) ==
    IF exts = <<>> THEN <<>>
    ELSE Glob(dir, Head(exts)) \o GlobAll(dir, Tail(exts))

\* file_tracking.py:13-20: MD5 digest of the content
calculate_file_hash(f) == "md5:" \o f.content

\* file_tracking.py:22-30
get_file_metadata(f, now) ==
    [size |-> Len(f.content), modified_time |-> f.mtime,
     hash |-> calculate_file_hash(f), last_processed |-> now]

NoTrackingFile == [exists |-> FALSE, files |-> EmptyMap, last_update |-> 0]

\* file_tracking.py:32-42
load_file_tracking(tf, now) ==
    IF tf.exists THEN [files |-> tf.files, last_update |-> tf.last_update]
    ELSE [files |-> EmptyMap, last_update |-> now]

\* Fault variant of FileChanged: compares size and modification time
\* instead of the content hash
FileChanged_by_stat(f, entry) ==
    \/ Len(f.content) # entry.size
    \/ f.mtime # entry.modified_time

\* file_tracking.py:76-77: current_hash != tracked_files[rel_path]["hash"]
FileChanged(f, entry) == calculate_file_hash(f) # entry.hash

RECURSIVE DiffFiles(_, _, _, _, _)
\* file_tracking.py:63-81: the loop over current_files; yields the updated
\* tracked_files and new_or_changed_files
DiffFiles(cur, dir, tracked, changed, now) ==
    IF cur = <<>> THEN [tracked |-> tracked, changed |-> changed]
    ELSE LET p == Head(cur)
             f == dir[p]
         IN IF p \notin DOMAIN tracked
            THEN DiffFiles(Tail(cur), dir,
                           Put(tracked, p, get_file_metadata(f, now)),
                           Append(changed, p), now)
            ELSE IF FileChanged(f, tracked[p])
            THEN DiffFiles(Tail(cur), dir,
                           Put(tracked, p, get_file_metadata(f, now)),
                           Append(changed, p), now)
            ELSE DiffFiles(Tail(cur), dir, tracked, changed, now)

\* Fault variant of RemoveDeleted: entries of deleted files are kept
RemoveDeleted_keep(tracked, cur) == tracked

\* file_tracking.py:83-88: drop the entries whose path is no longer listed
RemoveDeleted(tracked, cur) ==
    [p \in {q \in DOMAIN tracked : q \in Range(cur)} |-> tracked[p]]

\* Fault variant of check_files_diff: a second scan started from the
\* entries it has just written reports every file again
check_files_diff_forget(dir, tracked, now) ==
    LET cur == GlobAll(dir, supported_extensions)
        d == DiffFiles(cur, dir, EmptyMap, <<>>, now)
    IN [tracked |-> RemoveDeleted(d.tracked, cur), changed |-> d.changed]

\* file_tracking.py:58-88: the in-memory part of check_files_changed
check_files_diff(dir, tracked, now) ==
    LET cur == GlobAll(dir, supported_extensions)
        d == DiffFiles(cur, dir, tracked, <<>>, now)
    IN [tracked |-> RemoveDeleted(d.tracked, cur), changed |-> d.changed]

----------------------------------------------------------------------------
(* Extraction, chunking and the vector store, file_loaders.py, vector_store.py *)

\* file_loaders.py:19-36: the loader chosen by the extension, "None" for an
\* extension that is not supported
get_file_loader(p) ==
    CASE Ext(p) = ".pdf" -> "PyPDFLoader"
      [] Ext(p) = ".txt" -> "TextLoader"
      [] Ext(p) = ".csv" -> "CSVLoader"
      [] Ext(p) \in {".xlsx", ".xls"} -> "UnstructuredExcelLoader"
      [] Ext(p) \in {".md", ".markdown"} -> "UnstructuredMarkdownLoader"
      [] OTHER -> "None"

\* os.path.basename
BaseName(p) == IF p = "docs/faq.txt" THEN "faq.txt" ELSE p

\* file_loaders.py:47-54: the document a loader yields for a file, tagged
\* with its base name and path
LoadedDoc(p, f) ==
    [source_file |-> BaseName(p), file_path |-> p, text |-> f.content,
     gen |-> f.gen]

\* Fault variant of load_specific_documents: the first path whose loader
\* raises ends the loading, the later paths are not read
load_specific_documents_abort(paths, dir, bad) ==
    LET Stop(i) == paths[i] \in bad \/ ~dir[paths[i]].exists
        n == IF \E i \in 1..Len(paths) : Stop(i)
             THEN (CHOOSE i \in 1..Len(paths) :
                       Stop(i) /\ \A j \in 1..(i - 1) : ~Stop(j)) - 1
             ELSE Len(paths)
        kept == SelectSeq(SubSeq(paths, 1, n),
                          LAMBDA q : get_file_loader(q) # "None")
    IN [i \in 1..Len(kept) |-> LoadedDoc(kept[i], dir[kept[i]])]

RECURSIVE load_specific_documents(_, _, _)
\* file_loaders.py:38-58: documents of the paths, in order; a path whose
\* loader raises (it is in bad, or the file is gone) is skipped
load_specific_documents(paths, dir, bad) ==
    IF paths = <<>> THEN <<>>
    ELSE LET p == Head(paths)
             rest == load_specific_documents(Tail(paths), dir, bad)
         IN IF get_file_loader(p) = "None" \/ p \in bad \/ ~dir[p].exists
            THEN rest
            ELSE <<LoadedDoc(p, dir[p])>> \o rest

\* file_loaders.py:60-89: as above for every supported file of the directory
load_documents_from_directory(dir, bad) ==
    load_specific_documents(GlobAll(dir, supported_extensions), dir, bad)

\* file_loaders.py:91-97: texts are shorter than chunk_size (500), so every
\* non-empty document yields exactly one chunk and an empty one none
split_documents(docs) == SelectSeq(docs, LAMBDA d : Len(d.text) > 0)

NoChroma == [exists |-> FALSE, vectors |-> <<>>]

\* Fault variant of initialize_or_load_vector_store: the store is always
\* rebuilt from the supplied documents (Chroma.from_documents)
initialize_or_load_vector_store_rebuild(store, dir_nonempty, docs) ==
    IF docs = <<>> /\ ~dir_nonempty
    THEN [store |-> store, result |-> "ValueError"]
    ELSE [store |-> [exists |-> TRUE, vectors |-> docs], result |-> "ok"]

\* vector_store.py:12-45.  dir_nonempty is "os.path.exists(vector_store_dir)
\* and os.listdir(vector_store_dir)".
initialize_or_load_vector_store(store, dir_nonempty, docs) ==
    IF dir_nonempty
    THEN [store |-> [exists |-> TRUE,
                     vectors |-> IF docs # <<>> THEN store.vectors \o docs
                                 ELSE store.vectors],
          result |-> "ok"]
    ELSE IF docs = <<>>
    THEN [store |-> store, result |-> "ValueError"]
    ELSE [store |-> [exists |-> TRUE, vectors |-> docs], result |-> "ok"]

\* os.listdir(VECTOR_STORE_DIR) is non-empty: the directory holds the
\* tracking file (app.py:24) and the files of the persisted index (app.py:23)
VectorDirNonEmpty == tracking_file.exists \/ chroma.exists

----------------------------------------------------------------------------
(* initialize_rag_system() and its callers, app.py:44-123, 326-369 *)

\* processes running initialize_rag_system one at a time
SeqProcs == {"p1"}

\* Fields of a process record:
\*   pc       "idle", "init" (initialize_rag_system entered), "scan_loaded"
\*            (manifest read), "scan_diffed" (diff computed in memory),
\*            "scanned" (manifest rewritten, check_files_changed returned),
\*            "chunked" (documents loaded and split), "done"
\*   now      the clock reading used for this run's timestamps
\*   loaded   history field: tracking_data["files"] as read from the manifest
\*   tracking the local tracking_data["files"]
\*   reported history field: the (path, gen) pairs of new_or_changed_files
\*   changed  new_or_changed_files
\*   use_docs the call of initialize_or_load_vector_store passes docs
\*   chunks   chunked_documents
\*   ver_begin  history field: fs_version when the manifest was read
\*   had_vectors  history field: the index held vectors when it was opened
\*   result   "none", "ok", "ValueError", "EmbeddingError", "IOError"
\*   via      history field: "lazy" (entered from __main__ or from a request
\*            that found qa_chain unset), "upload" (entered from upload_file)
\*   missed   history field of a scan that raised: the new or changed files
\*            other than the unreadable one
IdleProc ==
    [pc |-> "idle", now |-> 0, loaded |-> EmptyMap, tracking |-> EmptyMap,
     changed |-> <<>>, reported |-> {},
     use_docs |-> FALSE, chunks |-> <<>>, ver_begin |-> 0,
     had_vectors |-> FALSE, result |-> "none", via |-> "none", missed |-> {}]

ProcFree(p) == proc[p].pc \in {"idle", "done"}

\* app.py:367-368 and app.py:150-151, 218-219: initialize_rag_system is
\* entered because the pipeline handle is not set
startup(p) ==
    /\ ProcFree(p)
    /\ ~qa_chain
    /\ clock < MaxScans
    /\ clock' = clock + 1
    /\ proc' = [proc EXCEPT ![p] = [IdleProc EXCEPT !.pc = "init",
                                                   !.now = clock + 1,
                                                   !.via = "lazy"]]
    /\ UNCHANGED <<knowledge_dir, tracking_file, chroma, qa_chain,
                   fs_version, scan_log, failed_extract, memory>>

\* app.py:343-355: the uploaded file is saved, qa_chain is reset and
\* initialize_rag_system is entered
upload_file(p, path, c) ==
    /\ ProcFree(p)
    /\ fs_version < MaxEdits
    /\ clock < MaxScans
    /\ fs_version' = fs_version + 1
    /\ knowledge_dir' = [knowledge_dir EXCEPT
                           ![path] = File(c, fs_version + 1, fs_version + 1)]
    /\ qa_chain' = FALSE
    /\ clock' = clock + 1
    /\ proc' = [proc EXCEPT ![p] = [IdleProc EXCEPT !.pc = "init",
                                                   !.now = clock + 1,
                                                   !.via = "upload"]]
    /\ UNCHANGED <<tracking_file, chroma, scan_log, failed_extract, memory>>

\* file_tracking.py:54-56: the manifest is read
scan_load(p) ==
    /\ proc[p].pc = "init"
    /\ proc' = [proc EXCEPT
                  ![p].pc = "scan_loaded",
                  ![p].loaded =
                      load_file_tracking(tracking_file, proc[p].now).files,
                  ![p].tracking =
                      load_file_tracking(tracking_file, proc[p].now).files,
                  ![p].ver_begin = fs_version]
    /\ UNCHANGED <<knowledge_dir, tracking_file, chroma, qa_chain, clock,
                   fs_version, scan_log, failed_extract, memory>>

\* file_tracking.py:58-88: the directory is listed and hashed, the local
\* tracked_files is updated, deleted paths are dropped from it
scan_diff(p) ==
    /\ proc[p].pc = "scan_loaded"
    /\ LET d == check_files_diff(knowledge_dir, proc[p].tracking, proc[p].now)
       IN proc' = [proc EXCEPT ![p].pc = "scan_diffed",
                               ![p].tracking = d.tracked,
                               ![p].changed = d.changed,
                               ![p].reported =
                                   {<<q, knowledge_dir[q].gen>> :
                                        q \in Range(d.changed)}]
    /\ UNCHANGED <<knowledge_dir, tracking_file, chroma, qa_chain, clock,
                   fs_version, scan_log, failed_extract, memory>>

\* environment: the files that can be unreadable when a scan hashes them
\* (the last one the scan visits, so that entries are updated before it)
Unreadable == {"guide.md"}

\* current_files up to, and without, the path q
PrefixBefore(cur, q) ==
    SubSeq(cur, 1, (CHOOSE i \in 1..Len(cur) : cur[i] = q) - 1)

\* Fault variant of scan_raise: the entries updated before the unreadable
\* file are written to the manifest when the scan is left
scan_raise_partial_save(p, q) ==
    /\ proc[p].pc = "scan_loaded"
    /\ q \in Range(GlobAll(knowledge_dir, supported_extensions))
    /\ LET cur == GlobAll(knowledge_dir, supported_extensions)
           d == DiffFiles(PrefixBefore(cur, q), knowledge_dir,
                          proc[p].tracking, <<>>, proc[p].now)
           full == check_files_diff(knowledge_dir, proc[p].tracking, proc[p].now)
       IN /\ proc' = [proc EXCEPT ![p].pc = "done",
                                  ![p].tracking = d.tracked,
                                  ![p].changed = d.changed,
                                  ![p].result = "IOError",
                                  ![p].missed = Range(full.changed) \ {q}]
          /\ tracking_file' = [exists |-> TRUE, files |-> d.tracked,
                               last_update |-> proc[p].now]
    /\ UNCHANGED <<knowledge_dir, chroma, qa_chain, clock,
                   fs_version, scan_log, failed_extract, memory>>

\* file_tracking.py:16 and 24, called from file_tracking.py:73, 76 and 81:
\* the file q cannot be read, open() or os.stat() raises.  Nothing in
\* check_files_changed or initialize_rag_system catches the exception: the
\* loop is left at q with the local tracked_files updated for the files
\* before q, and the lines 83-94 do not run.
scan_raise(p, q) ==
    /\ proc[p].pc = "scan_loaded"
    /\ q \in Range(GlobAll(knowledge_dir, supported_extensions))
    /\ LET cur == GlobAll(knowledge_dir, supported_extensions)
           d == DiffFiles(PrefixBefore(cur, q), knowledge_dir,
                          proc[p].tracking, <<>>, proc[p].now)
           full == check_files_diff(knowledge_dir, proc[p].tracking, proc[p].now)
       IN proc' = [proc EXCEPT ![p].pc = "done",
                               ![p].tracking = d.tracked,
                               ![p].changed = d.changed,
                               ![p].result = "IOError",
                               ![p].missed = Range(full.changed) \ {q}]
    /\ UNCHANGED <<knowledge_dir, tracking_file, chroma, qa_chain, clock,
                   fs_version, scan_log, failed_extract, memory>>

\* the record of a completed scan kept in scan_log
ScanRecord(p) ==
    [before |-> proc[p].loaded, after |-> proc[p].tracking,
     changed |-> proc[p].changed, reported |-> proc[p].reported,
     dir |-> knowledge_dir, pending |-> failed_extract,
     ver_begin |-> proc[p].ver_begin, ver_end |-> fs_version]

\* file_tracking.py:90-94: the manifest is rewritten, the list is returned
scan_save(p) ==
    /\ proc[p].pc = "scan_diffed"
    /\ tracking_file' = [exists |-> TRUE, files |-> proc[p].tracking,
                         last_update |-> proc[p].now]
    /\ scan_log' = LastN(Append(scan_log, ScanRecord(p)), 2)
    /\ proc' = [proc EXCEPT ![p].pc = "scanned"]
    /\ UNCHANGED <<knowledge_dir, chroma, qa_chain, clock, fs_version,
                   failed_extract, memory>>

\* the paths initialize_rag_system hands to the loaders: the changed
\* files (app.py:55-59), or every supported file when nothing changed and
\* the vector store directory is empty (app.py:77, 84-87)
PathsToLoad(p) ==
    IF proc[p].changed # <<>> THEN proc[p].changed
    ELSE IF VectorDirNonEmpty THEN <<>>
    ELSE GlobAll(knowledge_dir, supported_extensions)

\* failed_extract after a pass over paths in which the loaders of bad raised
NoteExtraction(fe, paths, bad) ==
    LET failed == {q \in Range(paths) : q \in bad /\ knowledge_dir[q].exists}
        kept == {q \in DOMAIN fe : q \notin Range(paths)}
    IN [q \in kept \cup failed |->
           IF q \in failed THEN knowledge_dir[q].content ELSE fe[q]]

\* app.py:55-64 and 73-88: documents are loaded and split
load_documents(p) ==
    /\ proc[p].pc = "scanned"
    /\ \E bad \in SUBSET Range(PathsToLoad(p)) :
          /\ proc' = [proc EXCEPT
                        ![p].pc = "chunked",
                        ![p].use_docs =
                            (proc[p].changed # <<>> \/ ~VectorDirNonEmpty),
                        ![p].chunks =
                            split_documents(load_specific_documents(
                                PathsToLoad(p), knowledge_dir, bad))]
          /\ failed_extract' = NoteExtraction(failed_extract, PathsToLoad(p), bad)
    /\ UNCHANGED <<knowledge_dir, tracking_file, chroma, qa_chain, clock,
                   fs_version, scan_log, memory>>

\* app.py:66-71, 79-82, 89-93 and 95-123: the vector store is opened with
\* the chunks; when it returns, the retriever, the llm and a new qa_chain
\* (with a new, empty memory, qa_chain.py:18) are built
open_vector_store(p) ==
    /\ proc[p].pc = "chunked"
    /\ LET r == initialize_or_load_vector_store(chroma, VectorDirNonEmpty,
                                                proc[p].chunks)
       IN /\ chroma' = r.store
          /\ qa_chain' = (IF r.result = "ok" THEN TRUE ELSE qa_chain)
          /\ memory' = (IF r.result = "ok" THEN <<>> ELSE memory)
          /\ proc' = [proc EXCEPT ![p].pc = "done",
                                  ![p].had_vectors = (chroma.vectors # <<>>),
                                  ![p].result = r.result]
    /\ UNCHANGED <<knowledge_dir, tracking_file, clock, fs_version, scan_log,
                   failed_extract>>

\* vector_store.py:31, 39: the embedding service raises while the chunks
\* are embedded; nothing is added and initialize_rag_system is left by the
\* exception
open_vector_store_raise(p) ==
    /\ proc[p].pc = "chunked"
    /\ proc[p].chunks # <<>>
    /\ chroma' = [chroma EXCEPT !.exists = TRUE]
    /\ proc' = [proc EXCEPT ![p].pc = "done",
                            ![p].had_vectors = (chroma.vectors # <<>>),
                            ![p].result = "EmbeddingError"]
    /\ UNCHANGED <<knowledge_dir, tracking_file, qa_chain, clock, fs_version,
                   scan_log, failed_extract, memory>>

\* the process is stopped and started again: everything in memory is lost,
\* the directories are kept
restart ==
    /\ \E p \in DOMAIN proc : proc[p].pc = "done"
    /\ \A p \in DOMAIN proc : proc[p].pc \in {"idle", "done"}
    /\ proc' = [p \in DOMAIN proc |-> IdleProc]
    /\ qa_chain' = FALSE
    /\ memory' = <<>>
    /\ UNCHANGED <<knowledge_dir, tracking_file, chroma, clock, fs_version,
                   scan_log, failed_extract>>

\* environment: a file of the watched directory is created or rewritten;
\* keep_mtime: the writer (of notes.txt) restores the modification time
fs_edit(path, c, keep_mtime) ==
    /\ fs_version < MaxEdits
    /\ knowledge_dir[path].content # c
    /\ keep_mtime => (knowledge_dir[path].exists /\ path = "notes.txt")
    /\ fs_version' = fs_version + 1
    /\ knowledge_dir' = [knowledge_dir EXCEPT
          ![path] = File(c, IF keep_mtime THEN knowledge_dir[path].mtime
                            ELSE fs_version + 1,
                         fs_version + 1)]
    /\ UNCHANGED <<tracking_file, chroma, qa_chain, proc, clock, scan_log,
                   failed_extract, memory>>

\* environment: a file of the watched directory is removed
fs_delete(path) ==
    /\ fs_version < MaxEdits
    /\ knowledge_dir[path].exists
    /\ fs_version' = fs_version + 1
    /\ knowledge_dir' = [knowledge_dir EXCEPT ![path] = NoFile]
    /\ UNCHANGED <<tracking_file, chroma, qa_chain, proc, clock, scan_log,
                   failed_extract, memory>>

\* contents the environment writes to a path
ContentsOf(path) == IF Ext(path) = ".exe" THEN {"v1"} ELSE Contents

\* a process that has just been started: nothing tracked, nothing indexed,
\* the watched directory holding an unsupported file and any of the others
IngestInit ==
    /\ knowledge_dir \in {d \in [Paths -> {NoFile, File("v1", 0, 0)}] :
                              d["tool.exe"].exists}
    /\ tracking_file = NoTrackingFile
    /\ chroma = NoChroma
    /\ qa_chain = FALSE
    /\ proc = [p \in SeqProcs |-> IdleProc]
    /\ clock = 0
    /\ fs_version = 0
    /\ scan_log = <<>>
    /\ failed_extract = EmptyMap

\* the watched directory holding notes.txt only
NotesDir == [p \in Paths |-> IF p = "notes.txt" THEN File("v1", 0, 0) ELSE NoFile]

\* the state in which requests are served: initialize_rag_system has run to
\* its end on NotesDir at time 0 (app.py:367-368), the processes ps are idle
IngestServed(ps) ==
    LET d == check_files_diff(NotesDir, EmptyMap, 0)
        docs == split_documents(load_specific_documents(d.changed, NotesDir, {}))
    IN /\ knowledge_dir = NotesDir
       /\ tracking_file = [exists |-> TRUE, files |-> d.tracked, last_update |-> 0]
       /\ chroma = [exists |-> TRUE, vectors |-> docs]
       /\ qa_chain = TRUE
       /\ proc = [p \in ps |-> IdleProc]
       /\ clock = 0
       /\ fs_version = 0
       /\ scan_log = <<>>
       /\ failed_extract = EmptyMap

\* no call of load_specific_documents on its own
NoLoadCall == [pc |-> "none", paths |-> <<>>, bad |-> {}, result |-> <<>>]

\* the loaders are only called from initialize_rag_system
LoadIdle == load_call = NoLoadCall

\* the buffered chain of a process that has just built it
ChainInit ==
    /\ memory = <<>>
    /\ llm_input = [t \in SeqThreads |-> [given |-> FALSE, history |-> <<>>]]

\* the serving process: pipeline initialised, no session yet
Init == SessionInit /\ ChainInit /\ IngestServed(SeqProcs) /\ LoadIdle

\* what the session handlers leave alone
SessionFrame == UNCHANGED <<chain_vars, ingest_vars, load_call>>

\* what the ingestion steps leave alone
IngestFrame == UNCHANGED <<session_vars, llm_input, load_call>>

\* start of the process: empty session store, pipeline not initialised
InitIngest == SessionInit /\ ChainInit /\ IngestInit /\ LoadIdle

NextIngest ==
    \/ \E p \in SeqProcs :
        \/ startup(p) /\ IngestFrame
        \/ \E path \in Paths : \E c \in ContentsOf(path) :
              upload_file(p, path, c) /\ IngestFrame
        \/ scan_load(p) /\ IngestFrame
        \/ scan_diff(p) /\ IngestFrame
        \/ \E q \in Unreadable : scan_raise(p, q) /\ IngestFrame
        \/ scan_save(p) /\ IngestFrame
        \/ load_documents(p) /\ IngestFrame
        \/ open_vector_store(p) /\ IngestFrame
        \/ open_vector_store_raise(p) /\ IngestFrame
    \/ restart /\ IngestFrame
    \/ \E path \in Paths : \E c \in ContentsOf(path) : \E k \in BOOLEAN :
          fs_edit(path, c, k) /\ IngestFrame
    \/ \E path \in Paths : fs_delete(path) /\ IngestFrame

\* ingestion by one process at a time, with the directory changing under it
SpecIngest == InitIngest /\ [][NextIngest]_vars

----------------------------------------------------------------------------
(* Two request threads running initialize_rag_system at the same time *)

\* threads of the server that can be inside initialize_rag_system together:
\* one serving an upload, one serving an upload or a request that finds
\* qa_chain unset (app.py:150-151, 218-219, 354-355)
Procs == {"p1", "p2"}

InitScans == SessionInit /\ ChainInit /\ IngestServed(Procs) /\ LoadIdle

NextScans ==
    \E p \in Procs :
        \/ startup(p) /\ IngestFrame
        \/ \E path \in Paths : \E c \in ContentsOf(path) :
              upload_file(p, path, c) /\ IngestFrame
        \/ scan_load(p) /\ IngestFrame
        \/ scan_diff(p) /\ IngestFrame
        \/ scan_save(p) /\ IngestFrame
        \/ load_documents(p) /\ IngestFrame
        \/ open_vector_store(p) /\ IngestFrame
        \/ open_vector_store_raise(p) /\ IngestFrame

\* ingestion by two threads of the serving process; no lock is taken
\* anywhere in app.py or file_tracking.py
SpecScans == InitScans /\ [][NextScans]_vars

----------------------------------------------------------------------------
(* load_specific_documents() called on its own, file_loaders.py:38-58 *)

\* bound: length of the list of paths of a call
MaxPaths == 3

\* the paths a call can name: the files of the watched directory and a file
\* in a sub-directory of it
LoadPaths == Paths \cup {"docs/faq.txt"}

\* the files behind LoadPaths, each with a text of its own
LoadDir == [p \in LoadPaths |-> File("text of " \o p, 0, 0)]

\* all lists of at most n paths
ListsUpTo(n) == UNION {[1..k -> LoadPaths] : k \in 0..n}

\* a call with any list of paths; the loaders of the paths in bad raise
InitLoad ==
    /\ SessionInit /\ ChainInit /\ IngestServed(SeqProcs)
    /\ \E paths \in ListsUpTo(MaxPaths) : \E bad \in SUBSET LoadPaths :
          load_call = [pc |-> "called", paths |-> paths, bad |-> bad,
                       result |-> <<>>]

\* the call returns its documents
load_return ==
    /\ load_call.pc = "called"
    /\ load_call' = [load_call EXCEPT
          !.pc = "returned",
          !.result = load_specific_documents(load_call.paths, LoadDir,
                                             load_call.bad)]
    /\ UNCHANGED <<session_vars, chain_vars, ingest_vars>>

NextLoad == load_return

SpecLoad == InitLoad /\ [][NextLoad]_vars

----------------------------------------------------------------------------
(* Requests served one at a time *)

Next ==
    \E t \in SeqThreads :
        \/ query_reject(t) /\ SessionFrame
        \/ \E s \in Sessions : query_begin(t, s) /\ SessionFrame
        \/ query_success(t) /\ SessionFrame
        \/ query_except(t) /\ SessionFrame
        \/ stream_query_reject(t) /\ SessionFrame
        \/ \E s \in Sessions : stream_query_begin(t, s) /\ SessionFrame
        \/ stream_query_respond(t) /\ SessionFrame
        \/ stream_query_except(t) /\ SessionFrame
        \/ generate_sources(t) /\ SessionFrame
        \/ generate_token(t) /\ SessionFrame
        \/ generate_end(t) /\ SessionFrame
        \/ generate_raise(t) /\ SessionFrame
        \/ \E s \in Sessions : get_history(t, s) /\ SessionFrame
        \/ \E s \in Sessions : clear_history(t, s) /\ SessionFrame

Spec == Init /\ [][Next]_vars

----------------------------------------------------------------------------
(* Requests served by two threads at once; the chain's memory *)

\* bound: number of questions asked, plus failures, disconnects and
\* clear_history calls, while two threads serve
MaxConcRequests == 2

\* threads of the server (app.run, app.py:369, serves requests in threads)
Threads == {"w1", "w2"}

RECURSIVE RenderHistory(_)
\* app.py:248-254: history_text, the turns of the history taken two by two;
\* the first of each pair is rendered as the user's message, the second as
\* the assistant's; a last message without a partner is left out
RenderHistory(h) ==
    IF Len(h) < 2 THEN <<>>
    ELSE <<UserMsg(h[1].content), AssistantMsg(h[2].content)>>
             \o RenderHistory(SubSeq(h, 3, Len(h)))

\* app.py:177 with qa_chain.py:18-22, 44-51: qa_chain.invoke returns.  The
\* chain has read chat_history from its ConversationBufferMemory, the one
\* object shared by all sessions, and has saved the question and the answer
\* into it.
qa_chain_invoke(t) ==
    /\ query_success(t)
    /\ llm_input' = [llm_input EXCEPT ![t] = [given |-> TRUE, history |-> memory]]
    /\ memory' = memory \o <<UserMsg(req[t].question),
                             AssistantMsg(Concat(req[t].script))>>

\* app.py:245-254 and 272: the streaming handler prepares chat_history from
\* the session's stored history without the current question
stream_query_prepare(t) ==
    /\ stream_query_respond(t)
    /\ llm_input' = [llm_input EXCEPT ![t] =
          [given |-> TRUE,
           history |-> RenderHistory(
                           Pop(HistoryOf(chat_history_store, req[t].sid)))]]
    /\ UNCHANGED memory

\* The consumer disconnects while generate() is suspended at a yield
\* (app.py:268, 282): the server closes the generator, GeneratorExit is
\* raised at the yield and leaves generate(); the lines 284-292 do not run.
generate_close(t) ==
    /\ req[t].pc = "s_streaming"
    /\ MayDisturb
    /\ req' = [req EXCEPT ![t].pc = "done", ![t].status = "cancelled"]
    /\ failures' = failures + 1
    /\ UNCHANGED <<chat_history_store, asked, clears, appended>>

InitConc ==
    /\ chat_history_store = [k \in {} |-> <<>>]
    /\ req = [t \in Threads |-> IdleReq]
    /\ asked = [s \in Sessions |-> 0]
    /\ failures = 0
    /\ clears = 0
    /\ appended = [s \in Sessions |-> <<>>]
    /\ memory = <<>>
    /\ llm_input = [t \in Threads |-> [given |-> FALSE, history |-> <<>>]]
    /\ LoadIdle
    /\ IngestServed(SeqProcs)

\* the clients may still ask a question, and the environment may still
\* inject a failure, a disconnect or a clear_history call
ConcBudget == TotalAsked + failures + clears < MaxConcRequests

NextConc ==
    \E t \in Threads :
        \/ query_reject(t) /\ SessionFrame
        \/ \E s \in Sessions :
              ConcBudget /\ query_begin(t, s) /\ SessionFrame
        \/ qa_chain_invoke(t) /\ UNCHANGED <<ingest_vars, load_call>>
        \/ ConcBudget /\ query_except(t) /\ SessionFrame
        \/ stream_query_reject(t) /\ SessionFrame
        \/ \E s \in Sessions :
              ConcBudget /\ stream_query_begin(t, s)
              /\ SessionFrame
        \/ stream_query_prepare(t) /\ UNCHANGED <<ingest_vars, load_call>>
        \/ ConcBudget /\ stream_query_except(t) /\ SessionFrame
        \/ generate_sources(t) /\ SessionFrame
        \/ generate_token(t) /\ SessionFrame
        \/ generate_end(t) /\ SessionFrame
        \/ ConcBudget /\ generate_raise(t) /\ SessionFrame
        \/ ConcBudget /\ generate_close(t) /\ SessionFrame
        \/ \E s \in Sessions : get_history(t, s) /\ SessionFrame
        \/ \E s \in Sessions :
              ConcBudget /\ clear_history(t, s) /\ SessionFrame

\* two threads serving requests; no lock is taken anywhere in app.py
SpecConc == InitConc /\ [][NextConc]_vars

----------------------------------------------------------------------------
(* Properties *)

\* no request is being served: the state between two calls
Quiescent == \A t \in SeqThreads : Free(t)

\* even length, roles alternating and starting with "user"
Paired(h) ==
    /\ Len(h) % 2 = 0
    /\ \A i \in 1..Len(h) :
          h[i].role = (IF i % 2 = 1 THEN "user" ELSE "assistant")

\* the tokens carried by the token events of ev, in order
TokensOf(ev) ==
    LET tok == SelectSeq(ev, LAMBDA e : e.type = "token")
    IN [i \in 1..Len(tok) |-> tok[i].token]

EventTypes(ev) == [i \in 1..Len(ev) |-> ev[i].type]

\* C1: between calls of query / stream_query (no clear_history involved),
\* every stored history has even length and alternates user, assistant,
\* starting with user; it never ends on an unanswered user message.
C1_PairedBetweenCalls ==
    (Quiescent /\ clears = 0) =>
        \A s \in DOMAIN chat_history_store : Paired(chat_history_store[s])

\* C2: the events of a stream are one sources event first, delivered before
\* the generation service is invoked, then token events only, and for a
\* successful stream exactly one end event, last; no second sources event
\* and nothing after end.
C2_StreamEventOrder ==
    \A t \in SeqThreads :
        req[t].kind = "stream" =>
            LET ev == req[t].events
                ty == EventTypes(ev)
            IN /\ req[t].gen_asked_at # -1 =>
                     /\ req[t].gen_asked_at >= 1
                     /\ ty[1] = "sources"
               /\ \A i \in 2..Len(ty) : ty[i] # "sources"
               /\ \A i \in 1..(Len(ty) - 1) : ty[i] # "end"
               /\ req[t].status = "success" =>
                     /\ Len(ty) >= 2
                     /\ ty[1] = "sources"
                     /\ ty[Len(ty)] = "end"
                     /\ \A i \in 2..(Len(ty) - 1) : ty[i] = "token"

\* C2 witness: a finished successful stream with sources, three tokens, end
C2_Witness ==
    \E t \in SeqThreads :
        /\ req[t].kind = "stream" /\ req[t].status = "success"
        /\ EventTypes(req[t].events) =
              <<"sources", "token", "token", "token", "end">>

\* C3: after a stream whose generation failed mid-stream, the session
\* history equals the history before the request.
C3_MidStreamRollsBack ==
    \A t \in SeqThreads :
        (req[t].kind = "stream" /\ req[t].status = "aborted") =>
            HistoryOf(chat_history_store, req[t].sid) = req[t].pre

\* C4: when generation fails mid-stream, no end event is delivered, no
\* assistant message is appended to the session (the last append is the
\* request's own user message), and the token events delivered are exactly
\* the fragments the service yielded before failing, in order.
C4_AbortedStream ==
    \A t \in SeqThreads :
        (req[t].kind = "stream" /\ req[t].status = "aborted") =>
            LET ev == req[t].events
                log == appended[req[t].sid]
            IN /\ \A i \in 1..Len(ev) : ev[i].type # "end"
               /\ ev[1].type = "sources"
               /\ Len(ev) = 1 + Len(req[t].generated)
               /\ TokensOf(ev) = req[t].generated
               /\ req[t].generated =
                     SubSeq(req[t].script, 1, Len(req[t].generated))
               /\ log[Len(log)] = UserMsg(req[t].question)
               /\ \A i \in 1..Len(chat_history_store[req[t].sid]) :
                     i > Len(req[t].pre) =>
                        chat_history_store[req[t].sid][i].role = "user"

\* C4 witness: a stream aborted after two of its three fragments
C4_Witness ==
    \E t \in SeqThreads :
        /\ req[t].kind = "stream" /\ req[t].status = "aborted"
        /\ Len(req[t].generated) = 2
        /\ Len(req[t].script) = 3

\* C5: a successful stream delivers the fragments f1..fn of the generation
\* service as n token events in that order, and the assistant message it
\* stores is the concatenation f1 + ... + fn.
C5_TokensAndStoredAnswer ==
    \A t \in SeqThreads :
        (req[t].kind = "stream" /\ req[t].status = "success") =>
            LET ev == req[t].events
                h == chat_history_store[req[t].sid]
                log == appended[req[t].sid]
            IN /\ req[t].generated = req[t].script
               /\ TokensOf(ev) = req[t].script
               /\ Len(ev) = Len(req[t].script) + 2
               /\ h[Len(h)] = AssistantMsg(Concat(req[t].script))
               /\ log[Len(log)] = AssistantMsg(Concat(req[t].script))
               /\ log[Len(log) - 1] = UserMsg(req[t].question)

\* C5 witness: a successful stream of three fragments whose stored answer
\* is their concatenation
C5_Witness ==
    \E t \in SeqThreads :
        /\ req[t].kind = "stream" /\ req[t].status = "success"
        /\ TokensOf(req[t].events) = <<"Paris", " is", " the capital.">>
        /\ LET h == chat_history_store[req[t].sid]
           IN h[Len(h)].content = "Paris is the capital."

\* C6: every stored history holds at most 20 messages.
C6_AtMostCap ==
    \A s \in DOMAIN chat_history_store :
        Len(chat_history_store[s]) <= MaxHistory

\* C7: after N > 10 successful round trips on a session and nothing else
\* (no failure, no clear_history), get_history returns exactly the last 20
\* messages appended: the last 10 user/assistant pairs, user first.
C7_CapKeepsLastTwenty ==
    \A t \in SeqThreads :
        ( /\ req[t].kind = "get_history"
          /\ failures = 0 /\ clears = 0
          /\ asked[req[t].sid] > 10 ) =>
            LET h == req[t].history
                log == appended[req[t].sid]
            IN /\ Len(h) = 20
               /\ Len(log) = 2 * asked[req[t].sid]
               /\ \A i \in 1..20 : h[i] = log[Len(log) - 20 + i]
               /\ Paired(h)
               /\ h[20].role = "assistant"
               /\ h[19] = UserMsg(Question(asked[req[t].sid]))

\* C7 witness: get_history after 11 successful round trips on one session;
\* the first pair has been dropped
C7_Witness ==
    \E t \in SeqThreads :
        /\ req[t].kind = "get_history"
        /\ failures = 0 /\ clears = 0
        /\ asked[req[t].sid] = 11
        /\ Len(req[t].history) = 20
        /\ req[t].history[1] = UserMsg(Question(2))

\* C8: a buffered query in which qa_chain.invoke raises returns an error
\* result and leaves the session history exactly as it was before the call.
C8_QueryFailureRollsBack ==
    \A t \in SeqThreads :
        (req[t].kind = "query" /\ req[t].pc = "done"
            /\ req[t].error = "exception") =>
            LET log == appended[req[t].sid]
            IN /\ req[t].status = "error"
               /\ req[t].answer = "" /\ req[t].sources = <<>>
               /\ HistoryOf(chat_history_store, req[t].sid) = req[t].pre
               /\ log[Len(log)] = UserMsg(req[t].question)

\* C8 witness: a failed query on a session that already held messages
C8_Witness ==
    \E t \in SeqThreads :
        /\ req[t].kind = "query" /\ req[t].pc = "done"
        /\ req[t].error = "exception"
        /\ Len(req[t].pre) >= 2

\* C9: a stream_query whose retrieval fails returns a single error result,
\* delivers no event, returns no retrieved documents, never invokes the
\* generation service, and leaves the session history as it was before.
C9_StreamUpfrontFailure ==
    \A t \in SeqThreads :
        (req[t].kind = "stream" /\ req[t].status = "error"
            /\ req[t].error = "exception") =>
            /\ req[t].pc = "done"
            /\ req[t].events = <<>>
            /\ req[t].docs = <<>> /\ req[t].sources = <<>>
            /\ req[t].gen_asked_at = -1
            /\ HistoryOf(chat_history_store, req[t].sid) = req[t].pre

\* C9 witness: a stream_query failing at retrieval on a session that
\* already held messages
C9_Witness ==
    \E t \in SeqThreads :
        /\ req[t].kind = "stream" /\ req[t].status = "error"
        /\ req[t].error = "exception"
        /\ Len(req[t].pre) >= 2

\* C10: a get_history call never changes the session store (it does not
\* even create the key), succeeds, and returns the stored history of the
\* key, the empty sequence for a key that is not in the store.
C10_GetHistoryReadOnly ==
    [][ \A t \in SeqThreads :
          (req'[t] # req[t] /\ req'[t].kind = "get_history") =>
              /\ chat_history_store' = chat_history_store
              /\ req'[t].status = "success"
              /\ req'[t].history =
                    (IF req'[t].sid \in DOMAIN chat_history_store
                     THEN chat_history_store[req'[t].sid] ELSE <<>>)
              /\ (req'[t].sid \notin DOMAIN chat_history_store =>
                    /\ req'[t].history = <<>>
                    /\ req'[t].sid \notin DOMAIN chat_history_store')
      ]_vars

\* C10 witness: get_history answered with the empty sequence for a key
\* that was never used, while another session holds messages
C10_Witness ==
    \E t \in SeqThreads :
        /\ req[t].kind = "get_history"
        /\ req[t].sid \notin DOMAIN chat_history_store
        /\ req[t].history = <<>>
        /\ DOMAIN chat_history_store # {}

----------------------------------------------------------------------------
(* Properties of the tracker scan and the ingestion, under SpecIngest *)

\* the scan completed last
LastScan == scan_log[Len(scan_log)]

\* the watched directory was not touched while the scan s ran
QuietScan(s) == s.ver_begin = s.ver_end

\* the entries of a manifest without their timestamps
Fingerprint(files) ==
    [p \in DOMAIN files |-> [size |-> files[p].size, hash |-> files[p].hash]]

\* the supported files existing in a directory
SupportedIn(dir) ==
    {p \in Paths : dir[p].exists /\ Ext(p) \in Range(supported_extensions)}

\* C11: when two scans run one after the other and no file was added,
\* modified or deleted from the start of the first to the end of the second,
\* the second returns an empty changed-list and leaves the manifest entries
\* (paths, sizes, hashes) as the first wrote them.
C11_IdempotentRescan ==
    (Len(scan_log) = 2 /\ scan_log[1].ver_begin = scan_log[2].ver_end) =>
        /\ scan_log[2].changed = <<>>
        /\ Fingerprint(scan_log[2].after) = Fingerprint(scan_log[1].after)
        /\ Fingerprint(tracking_file.files) = Fingerprint(scan_log[1].after)

\* C11 witness: a second scan of an untouched directory after a first scan
\* that reported files
C11_Witness ==
    /\ Len(scan_log) = 2
    /\ scan_log[1].ver_begin = scan_log[2].ver_end
    /\ scan_log[1].changed # <<>>
    /\ scan_log[2].changed = <<>>

\* C12: a scan returns, once each, exactly the supported files that are
\* absent from the manifest it read or whose content hash differs from the
\* stored one; this includes a file rewritten with its size and
\* modification time preserved.
C12_ChangedExactly ==
    (scan_log # <<>> /\ QuietScan(LastScan)) =>
        LET s == LastScan
        IN /\ Range(s.changed) =
                 {p \in SupportedIn(s.dir) :
                      \/ p \notin DOMAIN s.before
                      \/ s.before[p].hash # "md5:" \o s.dir[p].content}
           /\ Cardinality(Range(s.changed)) = Len(s.changed)

\* C12 witness: a scan reports a tracked file whose size and modification
\* time are those of its manifest entry
C12_Witness ==
    /\ scan_log # <<>>
    /\ QuietScan(LastScan)
    /\ \E p \in Range(LastScan.changed) :
          /\ p \in DOMAIN LastScan.before
          /\ LastScan.before[p].size = Len(LastScan.dir[p].content)
          /\ LastScan.before[p].modified_time = LastScan.dir[p].mtime

\* C13: after a completed scan the persisted manifest has an entry for a
\* path exactly when a supported file exists at that path; a tracked file
\* that was removed has no entry and is not in the changed-list.
C13_ManifestMatchesDirectory ==
    (scan_log # <<>> /\ QuietScan(LastScan)) =>
        LET s == LastScan
        IN /\ tracking_file.exists
           /\ tracking_file.files = s.after
           /\ DOMAIN tracking_file.files = SupportedIn(s.dir)
           /\ \A p \in DOMAIN s.before :
                 ~s.dir[p].exists =>
                     p \notin DOMAIN tracking_file.files
                     /\ p \notin Range(s.changed)

\* C13 witness: a scan completed after a tracked file was removed, while
\* an unsupported file sits in the directory
C13_Witness ==
    /\ scan_log # <<>>
    /\ QuietScan(LastScan)
    /\ \E p \in DOMAIN LastScan.before : ~LastScan.dir[p].exists
    /\ \E p \in Paths : LastScan.dir[p].exists /\ p \notin SupportedIn(LastScan.dir)

\* C14: a file whose extraction failed in an ingestion pass, and which has
\* not been rewritten since, is reported as changed by the next scan.
C14_FailedExtractionReportedAgain ==
    (scan_log # <<>> /\ QuietScan(LastScan)) =>
        \A p \in DOMAIN LastScan.pending :
            (LastScan.dir[p].exists
             /\ LastScan.dir[p].content = LastScan.pending[p]) =>
                p \in Range(LastScan.changed)

\* C15: whenever the vector store is opened with no chunks and the index
\* holds no vector, the call fails with ValueError (the EmptyIndexError of
\* the contract) instead of returning a usable empty index.
C15_EmptyIndexIsAnError ==
    \A p \in DOMAIN proc :
        (proc[p].pc = "done" /\ proc[p].chunks = <<>> /\ ~proc[p].had_vectors) =>
            proc[p].result = "ValueError"

\* C16: no step removes a vector from the index: the vectors stored before
\* a step are a prefix of the vectors stored after it.
C16_IndexNeverShrinks ==
    [][ /\ Len(chroma'.vectors) >= Len(chroma.vectors)
        /\ SubSeq(chroma'.vectors, 1, Len(chroma.vectors)) = chroma.vectors
      ]_vars

\* C16 witness: the index holds the chunk of an old content of a file next
\* to the chunk of its new content, or the chunk of a file that was deleted
C16_Witness ==
    \/ \E i, j \in 1..Len(chroma.vectors) :
          /\ i < j
          /\ chroma.vectors[i].source_file = chroma.vectors[j].source_file
          /\ chroma.vectors[i].text # chroma.vectors[j].text
    \/ \E i \in 1..Len(chroma.vectors) :
          ~knowledge_dir[chroma.vectors[i].source_file].exists

----------------------------------------------------------------------------
(* Concurrent scans, under SpecScans *)

\* C18: when two scans of the watched directory run concurrently, each
\* written content of a file is reported as changed by one scan only, so
\* that it is embedded at most once.
C18_ReportedByOneScan ==
    Len(scan_log) = 2 =>
        scan_log[1].reported \cap scan_log[2].reported = {}

----------------------------------------------------------------------------
(* Concurrent requests, the chain's memory and cancelled streams, under
   SpecConc *)

\* C17: when requests on the same session run concurrently and no service
\* fails, no stream is cancelled and nothing is cleared, the stored history
\* never holds two user messages next to each other.
C17_PairingUnderConcurrency ==
    (failures = 0 /\ clears = 0) =>
        \A s \in DOMAIN chat_history_store :
            \A i \in 1..(Len(chat_history_store[s]) - 1) :
                ~(/\ chat_history_store[s][i].role = "user"
                  /\ chat_history_store[s][i + 1].role = "user")

\* C19: the conversation history given to the generation service for a
\* buffered request on a session that held no message is empty, whatever
\* was exchanged on other sessions.
C19_FreshSessionSeesNoHistory ==
    \A t \in Threads :
        (/\ req[t].kind = "query" /\ req[t].pc = "done"
         /\ req[t].status = "success"
         /\ llm_input[t].given
         /\ req[t].pre = <<>>) =>
            llm_input[t].history = <<>>

\* C20: once the consumer of a stream has disconnected, the session of the
\* request does not end on the request's unanswered user message.
C20_CancelledStreamLeavesNoQuestion ==
    \A t \in Threads :
        req[t].status = "cancelled" =>
            LET h == HistoryOf(chat_history_store, req[t].sid)
            IN h = <<>> \/ h[Len(h)] # UserMsg(req[t].question)

----------------------------------------------------------------------------
(* Unreadable files during a scan, under SpecIngest *)

\* C21: a scan in which one candidate file is unreadable still persists the
\* manifest entries of the other new or changed files.
C21_UnreadableFileIsSkipped ==
    \A p \in DOMAIN proc :
        proc[p].result = "IOError" =>
            \A q \in proc[p].missed :
                /\ q \in DOMAIN tracking_file.files
                /\ tracking_file.files[q].last_processed = proc[p].now

\* C22: the manifest on disk changes only in the step that ends a completed
\* scan, where it becomes the scan's tracked_files; a scan that is left by
\* an I/O failure leaves the manifest as it was.
C22_ManifestOnlyWrittenAtEnd ==
    [][ /\ tracking_file' # tracking_file =>
              \E p \in DOMAIN proc :
                  /\ proc[p].pc = "scan_diffed"
                  /\ proc'[p].pc = "scanned"
                  /\ tracking_file'.files = proc[p].tracking
        /\ \A p \in DOMAIN proc :
              (proc[p].result # "IOError" /\ proc'[p].result = "IOError") =>
                  tracking_file' = tracking_file
      ]_vars

\* C22 witness: a scan was left by an I/O failure after it had updated
\* entries in memory, and the manifest on disk still has the entries of the
\* scan before
C22_Witness ==
    \E p \in DOMAIN proc :
        /\ proc[p].result = "IOError"
        /\ proc[p].changed # <<>>
        /\ tracking_file.exists
        /\ tracking_file.files # proc[p].tracking
        /\ tracking_file.files = proc[p].loaded

----------------------------------------------------------------------------
(* Extraction of a list of paths, under SpecLoad *)

\* a path of the call yields documents: its extension is supported and its
\* extractor does not raise
Extracts(p) ==
    /\ Ext(p) \in {".pdf", ".txt", ".csv", ".xlsx", ".xls", ".md", ".markdown"}
    /\ p \notin load_call.bad

\* C23: the result of an extraction holds, in input order, one document for
\* every path whose extension is supported and whose extractor succeeds,
\* and nothing for the other paths; each document carries the text of its
\* file, the file's base name and its path.
C23_ExtractionIsolatedPerPath ==
    load_call.pc = "returned" =>
        LET good == SelectSeq(load_call.paths, Extracts)
            res == load_call.result
        IN /\ Len(res) = Len(good)
           /\ \A i \in 1..Len(res) :
                 /\ res[i].file_path = good[i]
                 /\ res[i].source_file =
                       (IF good[i] = "docs/faq.txt" THEN "faq.txt" ELSE good[i])
                 /\ res[i].text = LoadDir[good[i]].content

\* C23 witness: a call whose first path is unsupported, whose second path
\* has a failing extractor and whose third path, in a sub-directory, is
\* extracted
C23_Witness ==
    /\ load_call.pc = "returned"
    /\ load_call.paths = <<"tool.exe", "notes.txt", "docs/faq.txt">>
    /\ load_call.bad = {"notes.txt"}
    /\ Len(load_call.result) = 1
    /\ load_call.result[1].source_file = "faq.txt"

----------------------------------------------------------------------------
(* History rendering, session isolation and clear_history, under SpecConc *)

\* C24: the history prepared for the generation service by a streaming
\* request is the session's stored history without the just-added question:
\* every message, oldest first, under its own role.
C24_RenderedHistoryIsStoredHistory ==
    [][ \A t \in Threads :
          (req[t].pc = "s_retrieve" /\ req'[t].pc = "s_response") =>
              llm_input'[t].history =
                  Pop(HistoryOf(chat_history_store, req[t].sid))
      ]_vars

\* C25: a step of a request on one session leaves the stored history of
\* every other session as it was, and creates or removes no other session.
C25_OtherSessionsUntouched ==
    [][ \A t \in Threads :
          req'[t] # req[t] =>
              \A s \in Sessions \ {req'[t].sid} :
                  /\ (s \in DOMAIN chat_history_store') =
                        (s \in DOMAIN chat_history_store)
                  /\ HistoryOf(chat_history_store', s) =
                        HistoryOf(chat_history_store, s)
      ]_vars

\* C25 witness: both sessions hold messages, one thread has just rolled back
\* or cleared on one session while the other thread is in the middle of a
\* request on the other session
C25_Witness ==
    \E t, u \in Threads :
        /\ t # u
        /\ req[t].pc = "done"
        /\ \/ req[t].kind = "clear_history"
           \/ req[t].status = "error" /\ req[t].error = "exception"
        /\ req[u].pc \in {"q_invoke", "s_retrieve", "s_response", "s_streaming"}
        /\ req[u].sid # req[t].sid
        /\ req[u].sid \in Sessions /\ req[t].sid \in Sessions
        /\ HistoryOf(chat_history_store, req[u].sid) # <<>>

\* C26: a session whose history was cleared never comes to hold an
\* assistant message as its first message (below the cap nothing but a
\* late append to a cleared session can put one there).
C26_ClearedSessionStaysClean ==
    \A s \in DOMAIN chat_history_store :
        (chat_history_store[s] # <<>> /\ Len(chat_history_store[s]) < MaxHistory) =>
            chat_history_store[s][1].role = "user"

----------------------------------------------------------------------------
(* Manifest and index after failed ingestions, under SpecIngest; concurrent
   re-initialisation, under SpecScans *)

\* no run of initialize_rag_system is in progress
NoRunInProgress == \A p \in DOMAIN proc : proc[p].pc \in {"idle", "done"}

\* C27: between runs, whenever the manifest records the hash of the current
\* content of a file (whose extraction did not fail), a chunk of that
\* content is in the index.
C27_ManifestImpliesIndexed ==
    NoRunInProgress =>
        \A p \in DOMAIN tracking_file.files :
            (/\ knowledge_dir[p].exists
             /\ tracking_file.files[p].hash = "md5:" \o knowledge_dir[p].content
             /\ p \notin DOMAIN failed_extract) =>
                \E i \in 1..Len(chroma.vectors) :
                    /\ chroma.vectors[i].source_file = p
                    /\ chroma.vectors[i].text = knowledge_dir[p].content

\* C28: the re-initialisation started by an upload and the one started by a
\* request that found the pipeline handle unset never run at the same time.
C28_NoConcurrentReinitialization ==
    ~ \E p, q \in DOMAIN proc :
        /\ proc[p].via = "upload" /\ proc[p].pc \notin {"idle", "done"}
        /\ proc[q].via = "lazy" /\ proc[q].pc \notin {"idle", "done"}

====
